---- MODULE Spec2Model ----
(***************************************************************************)
(* Point lookup in a static LOUDS-encoded trie                             *)
(* (include/cuco/detail/trie/trie_ref.inl).                                *)
(*                                                                         *)
(* The lookup code (lookup_key, get_last_child_position,                   *)
(* search_label_in_children) is translated from the source.  The trie it   *)
(* reads is built elsewhere (trie::insert / trie::build) and the bit       *)
(* vector it queries is implemented elsewhere (bit_vector_ref); both are   *)
(* modelled from the specification's data model (sections 3 and 4.1).      *)
(***************************************************************************)
EXTENDS Integers, Sequences, FiniteSets, TLC

(***************************************************************************)
(* Bounds of the model.                                                    *)
(***************************************************************************)
\* longest key of a build set
MaxLen == 2
\* largest number of keys in a build set
MaxKeys == 3

\* the symbols keys are made of (label type T)
Symbols == {1, 2}

(***************************************************************************)
(* uint64_t values.  TLC's integers are 32 bits wide, so a 64 bit value is *)
(* four 16 bit limbs, least significant first; arithmetic is modulo 2^64.  *)
(***************************************************************************)
LimbBase == 2^16

LimbIdx == 1..4

U64 == [LimbIdx -> 0..(LimbBase - 1)]

\* a small natural (below 2^31) as a uint64_t
ToU64(n) ==
  [i \in LimbIdx |-> IF i = 1 THEN n % LimbBase
                     ELSE IF i = 2 THEN (n \div LimbBase) % LimbBase
                     ELSE 0]

U64Carry(a, b, i) ==
  LET c1 == (a[1] + b[1]) \div LimbBase
      c2 == (a[2] + b[2] + c1) \div LimbBase
      c3 == (a[3] + b[3] + c2) \div LimbBase
  IN IF i = 1 THEN 0 ELSE IF i = 2 THEN c1 ELSE IF i = 3 THEN c2 ELSE c3

\* a + b in unsigned 64 bit arithmetic
U64Add(a, b) == [i \in LimbIdx |-> (a[i] + b[i] + U64Carry(a, b, i)) % LimbBase]

\* -a in unsigned 64 bit arithmetic (two's complement)
U64Neg(a) == U64Add([i \in LimbIdx |-> LimbBase - 1 - a[i]], ToU64(1))

\* a < b as unsigned 64 bit values
U64Less(a, b) ==
  \E i \in LimbIdx : a[i] < b[i] /\ \A j \in LimbIdx : j > i => a[j] = b[j]

U64Leq(a, b) == a = b \/ U64Less(a, b)

\* the value fits below 2^16, so that it can index the model's sequences
U64IsSmall(a) == a[2] = 0 /\ a[3] = 0 /\ a[4] = 0

U64ToNat(a) == a[1]

(***************************************************************************)
(* Bit sequences (bit_vector_ref): sequences of 0/1, position p of the     *)
(* code is index p + 1 of the sequence.                                    *)
(***************************************************************************)
SetPositions(bv) == {p \in 0..(Len(bv) - 1) : bv[p + 1] = 1}

\* get(i): value of the bit at position i
get(bv, i) == bv[i + 1] = 1

\* rank(i): number of set bits in positions [0, i)
rank(bv, i) == Cardinality({p \in SetPositions(bv) : p < i})

\* select(k): position of the (k+1)-th set bit
select(bv, k) ==
  CHOOSE p \in SetPositions(bv) : Cardinality({q \in SetPositions(bv) : q < p}) = k

\* find_next_set(pos): position of the first set bit at or after pos
find_next_set(bv, pos) ==
  CHOOSE p \in SetPositions(bv) : p >= pos /\ \A q \in SetPositions(bv) : q >= pos => p <= q

\* the domains on which the four queries are defined
CanGet(bv, i) == i < Len(bv)

CanRank(bv, i) == i <= Len(bv)

CanSelect(bv, k) == k < Cardinality(SetPositions(bv))

CanFindNextSet(bv, pos) == \E p \in SetPositions(bv) : p >= pos

(***************************************************************************)
(* The build set and the trie built from it.  Construction is outside the  *)
(* lookup code; the structure follows the data model: one level per depth, *)
(* nodes of a depth in lexicographic order of the prefixes they spell, one *)
(* label and one terminal bit per node, and a LOUDS sequence per depth     *)
(* that holds, for every node of the depth above and in their order, one   *)
(* unset bit per child followed by one set bit.  The nodes of the deepest  *)
(* depth have (empty) children blocks too, so the levels run from 0 to     *)
(* the longest key's length plus one.                                      *)
(***************************************************************************)
KeySeqs == UNION {[1..n -> Symbols] : n \in 0..MaxLen}

KeySets == {K \in SUBSET KeySeqs : Cardinality(K) <= MaxKeys}

\* a precedes b lexicographically (equal lengths)
LexLess(a, b) ==
  \E i \in 1..Len(a) : a[i] < b[i] /\ \A j \in 1..(i - 1) : a[j] = b[j]

Front(p) == SubSeq(p, 1, Len(p) - 1)

\* the nodes of depth d: the prefixes of length d of the keys (the root always exists)
NodesAt(K, d) ==
  IF d = 0 THEN {<< >>} ELSE {SubSeq(k, 1, d) : k \in {x \in K : Len(x) >= d}}

NumNodes(K, d) == Cardinality(NodesAt(K, d))

\* index of the node spelling p within its depth
NodeIndex(K, p) == Cardinality({q \in NodesAt(K, Len(p)) : LexLess(q, p)})

NodeOf(K, d, i) == CHOOSE p \in NodesAt(K, d) : NodeIndex(K, p) = i

\* number of depth-d nodes whose parent has index at most j
ChildrenUpTo(K, d, j) ==
  Cardinality({p \in NodesAt(K, d) : NodeIndex(K, Front(p)) <= j})

MaxDepth(K) == IF K = {} THEN 0 ELSE CHOOSE n \in 0..MaxLen :
                 (\E k \in K : Len(k) = n) /\ (\A k \in K : Len(k) <= n)

BuildLabels(K, d) ==
  IF d = 0 THEN << >> ELSE [i \in 1..NumNodes(K, d) |-> NodeOf(K, d, i - 1)[d]]

BuildLouds(K, d) ==
  IF d = 0 THEN <<0, 1>>
  ELSE [p \in 1..(NumNodes(K, d) + NumNodes(K, d - 1)) |->
          IF \E j \in 0..(NumNodes(K, d - 1) - 1) : p - 1 = ChildrenUpTo(K, d, j) + j
          THEN 1 ELSE 0]

BuildOuts(K, d) ==
  [i \in 1..NumNodes(K, d) |-> IF NodeOf(K, d, i - 1) \in K THEN 1 ELSE 0]

BuildOffset(K, d) == Cardinality({k \in K : Len(k) < d})

\* the device-side arrays of the trie, level d at index d + 1
Build(K) ==
  [d_levels_ptr_     |-> [l \in 1..(MaxDepth(K) + 2) |->
                            [d_labels_ptr |-> BuildLabels(K, l - 1),
                             offset       |-> BuildOffset(K, l - 1)]],
   d_louds_refs_ptr_ |-> [l \in 1..(MaxDepth(K) + 2) |-> BuildLouds(K, l - 1)],
   d_outs_refs_ptr_  |-> [l \in 1..(MaxDepth(K) + 2) |-> BuildOuts(K, l - 1)]]

NumLevels(t) == Len(t.d_levels_ptr_)

(***************************************************************************)
(* Lookup arguments: a key (an iterator over symbols) and its length.  A   *)
(* key whose length exceeds the symbols written out repeats its last       *)
(* symbol, so that lengths of 2^32 and more can be drawn.                   *)
(***************************************************************************)
QuerySeqs == UNION {[1..n -> Symbols] : n \in 0..(MaxLen + 1)}

\* 2^32 and 2^64 - 1
HugeLengths == {[i \in LimbIdx |-> IF i = 3 THEN 1 ELSE 0],
                [i \in LimbIdx |-> LimbBase - 1]}

Queries ==
  {[key |-> s, length |-> ToU64(Len(s))] : s \in QuerySeqs}
    \cup {[key |-> <<a>>, length |-> n] : a \in Symbols, n \in HugeLengths}

\* key[i]
KeyAt(key, i) == IF i < Len(key) THEN key[i + 1] ELSE key[Len(key)]

\* the query spells out one of the keys of the build set
Present(K, q) == q.length = ToU64(Len(q.key)) /\ q.key \in K

(***************************************************************************)
(* The lookup code.  uint32_t values (node_id, cur_depth, begin, end and   *)
(* bit positions) are naturals: they are bounded by the lengths of the     *)
(* trie's arrays, far below 2^32.  unsigned long is 64 bits wide (LP64),   *)
(* as on the Linux targets of the library.                                 *)
(***************************************************************************)
\* -1u: the 32 bit constant, zero-extended to 64 bits
NOT_FOUND_32 == [i \in LimbIdx |-> IF i <= 2 THEN LimbBase - 1 ELSE 0]

\* -1lu
NOT_FOUND == U64Neg(ToU64(1))

\* get_last_child_position without the "+ 1" that steps over the separator
get_last_child_position_NoSkip(louds, node_id) ==
  IF node_id # 0 /\ ~CanSelect(louds, node_id - 1)
  THEN [node_id |-> 0, ret |-> 0, ub |-> TRUE]
  ELSE LET node_pos == IF node_id # 0 THEN select(louds, node_id - 1) ELSE 0
           new_id   == IF node_id # 0 THEN node_pos - node_id ELSE node_id
       IN IF ~CanFindNextSet(louds, node_pos)
          THEN [node_id |-> new_id, ret |-> 0, ub |-> TRUE]
          ELSE LET pos_end == find_next_set(louds, node_pos)
               IN [node_id |-> new_id, ret |-> new_id + (pos_end - node_pos), ub |-> FALSE]

\* get_last_child_position returning the number of children, not the end
get_last_child_position_NoBase(louds, node_id) ==
  IF node_id # 0 /\ ~CanSelect(louds, node_id - 1)
  THEN [node_id |-> 0, ret |-> 0, ub |-> TRUE]
  ELSE LET node_pos == IF node_id # 0 THEN select(louds, node_id - 1) + 1 ELSE 0
           new_id   == IF node_id # 0 THEN node_pos - node_id ELSE node_id
       IN IF ~CanFindNextSet(louds, node_pos)
          THEN [node_id |-> new_id, ret |-> 0, ub |-> TRUE]
          ELSE LET pos_end == find_next_set(louds, node_pos)
               IN [node_id |-> new_id, ret |-> pos_end - node_pos, ub |-> FALSE]

\* get_last_child_position selecting the node's own separator, select(node_id)
get_last_child_position_SelectSelf(louds, node_id) ==
  IF node_id # 0 /\ ~CanSelect(louds, node_id)
  THEN [node_id |-> 0, ret |-> 0, ub |-> TRUE]
  ELSE LET node_pos == IF node_id # 0 THEN select(louds, node_id) + 1 ELSE 0
           new_id   == IF node_id # 0 THEN node_pos - node_id ELSE node_id
       IN IF ~CanFindNextSet(louds, node_pos)
          THEN [node_id |-> new_id, ret |-> 0, ub |-> TRUE]
          ELSE LET pos_end == find_next_set(louds, node_pos)
               IN [node_id |-> new_id, ret |-> new_id + (pos_end - node_pos), ub |-> FALSE]

\* get_last_child_position: node_id is the updated reference argument
get_last_child_position(louds, node_id) ==
  IF node_id # 0 /\ ~CanSelect(louds, node_id - 1)
  THEN [node_id |-> 0, ret |-> 0, ub |-> TRUE]
  ELSE LET node_pos == IF node_id # 0 THEN select(louds, node_id - 1) + 1 ELSE 0
           new_id   == IF node_id # 0 THEN node_pos - node_id ELSE node_id
       IN IF ~CanFindNextSet(louds, node_pos)
          THEN [node_id |-> new_id, ret |-> 0, ub |-> TRUE]
          ELSE LET pos_end == find_next_set(louds, node_pos)
               IN [node_id |-> new_id, ret |-> new_id + (pos_end - node_pos), ub |-> FALSE]

\* the binary search with "begin = node_id" for "begin = node_id + 1"
BinarySearchIter_NoAdvance(labels, target, begin, end) ==
  LET mid == (begin + end) \div 2
  IN IF mid >= Len(labels)
     THEN [begin |-> begin, end |-> end, node_id |-> mid, brk |-> FALSE, ub |-> TRUE]
     ELSE LET label == labels[mid + 1]
          IN IF target < label
             THEN [begin |-> begin, end |-> mid, node_id |-> mid, brk |-> FALSE, ub |-> FALSE]
             ELSE IF target > label
             THEN [begin |-> mid, end |-> end, node_id |-> mid, brk |-> FALSE, ub |-> FALSE]
             ELSE [begin |-> begin, end |-> end, node_id |-> mid, brk |-> TRUE, ub |-> FALSE]

\* one iteration of the binary search, entered with begin < end
BinarySearchIter(labels, target, begin, end) ==
  LET mid == (begin + end) \div 2
  IN IF mid >= Len(labels)
     THEN [begin |-> begin, end |-> end, node_id |-> mid, brk |-> FALSE, ub |-> TRUE]
     ELSE LET label == labels[mid + 1]
          IN IF target < label
             THEN [begin |-> begin, end |-> mid, node_id |-> mid, brk |-> FALSE, ub |-> FALSE]
             ELSE IF target > label
             THEN [begin |-> mid + 1, end |-> end, node_id |-> mid, brk |-> FALSE, ub |-> FALSE]
             ELSE [begin |-> begin, end |-> end, node_id |-> mid, brk |-> TRUE, ub |-> FALSE]

RECURSIVE BinarySearch(_, _, _, _, _, _)
\* the while loop; reads counts the labels read
BinarySearch(labels, target, begin, end, node_id, reads) ==
  IF ~(begin < end)
  THEN [found |-> begin < end, node_id |-> node_id, reads |-> reads, ub |-> FALSE]
  ELSE LET it == BinarySearchIter(labels, target, begin, end)
       IN IF it.ub THEN [found |-> FALSE, node_id |-> it.node_id, reads |-> reads, ub |-> TRUE]
          ELSE IF it.brk
          THEN [found |-> it.begin < it.end, node_id |-> it.node_id,
                reads |-> reads + 1, ub |-> FALSE]
          ELSE BinarySearch(labels, target, it.begin, it.end, it.node_id, reads + 1)

\* search_label_in_children; begin and end are the child range it searched
search_label_in_children(t, target, node_id, level_id) ==
  IF level_id >= NumLevels(t)
  THEN [found |-> FALSE, node_id |-> node_id, begin |-> 0, end |-> 0, reads |-> 0, ub |-> TRUE]
  ELSE LET louds == t.d_louds_refs_ptr_[level_id + 1]
           r     == get_last_child_position(louds, node_id)
           s     == BinarySearch(t.d_levels_ptr_[level_id + 1].d_labels_ptr, target,
                                 r.node_id, r.ret, r.node_id, 0)
       IN IF r.ub
          THEN [found |-> FALSE, node_id |-> r.node_id, begin |-> r.node_id, end |-> r.ret,
                reads |-> 0, ub |-> TRUE]
          ELSE [found |-> s.found, node_id |-> s.node_id, begin |-> r.node_id, end |-> r.ret,
                reads |-> s.reads, ub |-> s.ub]

\* the terminal bit read at level cur_depth = length + 1 instead of length
TerminalBit_NextLevel(t, length, node_id) ==
  IF ~U64IsSmall(length) \/ U64ToNat(length) + 1 >= NumLevels(t)
  THEN [bit |-> FALSE, ub |-> TRUE]
  ELSE LET outs == t.d_outs_refs_ptr_[U64ToNat(length) + 2]
       IN IF ~CanGet(outs, node_id) THEN [bit |-> FALSE, ub |-> TRUE]
          ELSE [bit |-> get(outs, node_id), ub |-> FALSE]

\* trie->d_outs_refs_ptr_[leaf_level_id].get(node_id) with leaf_level_id = length
TerminalBit(t, length, node_id) ==
  IF ~U64IsSmall(length) \/ U64ToNat(length) >= NumLevels(t)
  THEN [bit |-> FALSE, ub |-> TRUE]
  ELSE LET outs == t.d_outs_refs_ptr_[U64ToNat(length) + 1]
       IN IF ~CanGet(outs, node_id) THEN [bit |-> FALSE, ub |-> TRUE]
          ELSE [bit |-> get(outs, node_id), ub |-> FALSE]

\* the rank within the leaf level alone, without the level's offset
KeyIndex_NoOffset(t, length, node_id) ==
  ToU64(rank(t.d_outs_refs_ptr_[U64ToNat(length) + 1], node_id))

\* offset + node_id: the node's index taken for its rank among the terminals
KeyIndex_NodeId(t, length, node_id) ==
  U64Add(ToU64(t.d_levels_ptr_[U64ToNat(length) + 1].offset), ToU64(node_id))

\* offset + rank of the leaf level, entered after the terminal check succeeded
KeyIndex(t, length, node_id) ==
  LET leaf_level_id == U64ToNat(length)
      offset        == t.d_levels_ptr_[leaf_level_id + 1].offset
      rnk           == rank(t.d_outs_refs_ptr_[leaf_level_id + 1], node_id)
  IN U64Add(ToU64(offset), ToU64(rnk))

\* lookup_key without the terminal check
LeafResult_NoTerminalCheck(t, length, node_id) ==
  LET b == TerminalBit(t, length, node_id)
  IN IF b.ub THEN [ret |-> NOT_FOUND, ub |-> TRUE]
     ELSE [ret |-> KeyIndex(t, length, node_id), ub |-> FALSE]

\* the terminal check and the rank of lookup_key, entered with the final node_id
LeafResult(t, length, node_id) ==
  LET b == TerminalBit(t, length, node_id)
  IN IF b.ub THEN [ret |-> NOT_FOUND, ub |-> TRUE]
     ELSE IF ~b.bit THEN [ret |-> NOT_FOUND, ub |-> FALSE]
     ELSE [ret |-> KeyIndex(t, length, node_id), ub |-> FALSE]

\* the loop condition cur_depth <= length (cur_depth promoted to 64 bits)
DepthLoopCond(cur_depth, length) == U64Leq(ToU64(cur_depth), length)

RECURSIVE DepthLoop(_, _, _, _, _, _)
\* the level-by-level loop of lookup_key and what follows it; searches counts
\* the calls of search_label_in_children, reads the labels read
DepthLoop(t, key, length, node_id, cur_depth, cnt) ==
  IF DepthLoopCond(cur_depth, length)
  THEN LET s  == search_label_in_children(t, KeyAt(key, cur_depth - 1), node_id, cur_depth)
           c2 == [searches |-> cnt.searches + 1, reads |-> cnt.reads + s.reads]
       IN IF s.ub \/ ~s.found
          THEN [ret |-> NOT_FOUND, node_id |-> s.node_id, cur_depth |-> cur_depth,
                searches |-> c2.searches, reads |-> c2.reads, ub |-> s.ub]
          ELSE DepthLoop(t, key, length, s.node_id, cur_depth + 1, c2)
  ELSE LET f == LeafResult(t, length, node_id)
       IN [ret |-> f.ret, node_id |-> node_id, cur_depth |-> cur_depth,
           searches |-> cnt.searches, reads |-> cnt.reads, ub |-> f.ub]

lookup_key(t, key, length) ==
  DepthLoop(t, key, length, 0, 1, [searches |-> 0, reads |-> 0])

(***************************************************************************)
(* State.  keys is the build set and trie the structure built from it;     *)
(* both are shared by all workers.  Every other variable holds, per        *)
(* worker, the arguments, the locals and the result of its lookup_key      *)
(* call; sl holds the arguments and results of a single                    *)
(* search_label_in_children call.                                          *)
(***************************************************************************)
VARIABLES keys, trie, pc, query, node_id, cur_depth, begin, end, result,
          searches, reads, sl

vars == <<keys, trie, pc, query, node_id, cur_depth, begin, end, result,
          searches, reads, sl>>

shared == <<keys, trie>>

\* the concurrent workers
Workers == {1, 2}

\* no result yet
None == << >>

\* what a lookup that left the arrays' bounds may return
GarbageResults == {NOT_FOUND} \cup {ToU64(n) : n \in 0..MaxKeys}

NoSearch ==
  [level_id |-> 0, parent |-> 0, target |-> 0, begin |-> 0, end |-> 0,
   found |-> FALSE, node_id |-> 0, reads |-> 0]

InitWorkers(W) ==
  /\ keys \in KeySets
  /\ trie = Build(keys)
  /\ pc = [w \in W |-> "idle"]
  /\ query = [w \in W |-> [key |-> << >>, length |-> ToU64(0)]]
  /\ node_id = [w \in W |-> 0]
  /\ cur_depth = [w \in W |-> 0]
  /\ begin = [w \in W |-> 0]
  /\ end = [w \in W |-> 0]
  /\ result = [w \in W |-> None]
  /\ searches = [w \in W |-> 0]
  /\ reads = [w \in W |-> 0]
  /\ sl = NoSearch

Init == InitWorkers({1})

InitConc == InitWorkers(Workers)

(***************************************************************************)
(* Whole calls.                                                            *)
(***************************************************************************)
\* worker w calls lookup_key(q.key, q.length) and runs it to its return
LookupKey(w, q) ==
  LET r == lookup_key(trie, q.key, q.length)
  IN /\ pc[w] = "idle"
     /\ pc' = [pc EXCEPT ![w] = "done"]
     /\ query' = [query EXCEPT ![w] = q]
     /\ node_id' = [node_id EXCEPT ![w] = r.node_id]
     /\ cur_depth' = [cur_depth EXCEPT ![w] = r.cur_depth]
     /\ searches' = [searches EXCEPT ![w] = r.searches]
     /\ reads' = [reads EXCEPT ![w] = r.reads]
     /\ IF r.ub
        THEN \E g \in GarbageResults : result' = [result EXCEPT ![w] = g]
        ELSE result' = [result EXCEPT ![w] = r.ret]
     /\ UNCHANGED <<keys, trie, begin, end, sl>>

\* one call of search_label_in_children(target, node, level) for a node of
\* the depth above level
SearchLabel(target, node, level) ==
  LET s == search_label_in_children(trie, target, node, level)
  IN /\ sl = NoSearch
     /\ ~s.ub
     /\ sl' = [level_id |-> level, parent |-> node, target |-> target,
               begin |-> s.begin, end |-> s.end, found |-> s.found,
               node_id |-> s.node_id, reads |-> s.reads]
     /\ UNCHANGED <<keys, trie, pc, query, node_id, cur_depth, begin, end, result,
                    searches, reads>>

Next == \E w \in DOMAIN pc, q \in Queries : LookupKey(w, q)

\* one lookup_key call on a trie built from any key set
Spec == Init /\ [][Next]_vars

NextSearch ==
  \E level \in 1..(NumLevels(trie) - 1) :
    \E node \in 0..(Len(trie.d_outs_refs_ptr_[level]) - 1), target \in Symbols :
      SearchLabel(target, node, level)

\* one search_label_in_children call on a trie built from any key set
SpecSearch == Init /\ [][NextSearch]_vars

(***************************************************************************)
(* lookup_key step by step: one action per read of the shared arrays.      *)
(***************************************************************************)
\* where the for loop goes after its condition is evaluated
AfterLoopTest(depth, length) == IF DepthLoopCond(depth, length) THEN "resolve" ELSE "terminal"

\* the call left the bounds of an array: any result
Undefined(w) ==
  /\ pc' = [pc EXCEPT ![w] = "done"]
  /\ \E g \in GarbageResults : result' = [result EXCEPT ![w] = g]
  /\ UNCHANGED <<keys, trie, query, node_id, cur_depth, begin, end, searches, reads, sl>>

\* entry: node_id = 0, cur_depth = 1 and the first loop test
Start(w, q) ==
  /\ pc[w] \in {"idle", "done"}
  /\ pc' = [pc EXCEPT ![w] = AfterLoopTest(1, q.length)]
  /\ query' = [query EXCEPT ![w] = q]
  /\ node_id' = [node_id EXCEPT ![w] = 0]
  /\ cur_depth' = [cur_depth EXCEPT ![w] = 1]
  /\ begin' = [begin EXCEPT ![w] = 0]
  /\ end' = [end EXCEPT ![w] = 0]
  /\ result' = [result EXCEPT ![w] = None]
  /\ searches' = [searches EXCEPT ![w] = 0]
  /\ reads' = [reads EXCEPT ![w] = 0]
  /\ UNCHANGED <<keys, trie, sl>>

\* search_label_in_children up to its loop: the child range of node_id
Resolve(w) ==
  /\ pc[w] = "resolve"
  /\ IF cur_depth[w] >= NumLevels(trie) THEN Undefined(w)
     ELSE LET r == get_last_child_position(trie.d_louds_refs_ptr_[cur_depth[w] + 1], node_id[w])
          IN IF r.ub THEN Undefined(w)
             ELSE /\ pc' = [pc EXCEPT ![w] = "search"]
                  /\ node_id' = [node_id EXCEPT ![w] = r.node_id]
                  /\ begin' = [begin EXCEPT ![w] = r.node_id]
                  /\ end' = [end EXCEPT ![w] = r.ret]
                  /\ searches' = [searches EXCEPT ![w] = @ + 1]
                  /\ UNCHANGED <<keys, trie, query, cur_depth, result, reads, sl>>

\* the binary search keeping node_id in the shared reference object instead of
\* a local: every worker's node_id is overwritten
SearchIter_SharedNode(w) ==
  /\ pc[w] = "search"
  /\ begin[w] < end[w]
  /\ LET it == BinarySearchIter(trie.d_levels_ptr_[cur_depth[w] + 1].d_labels_ptr,
                                KeyAt(query[w].key, cur_depth[w] - 1), begin[w], end[w])
     IN IF it.ub THEN Undefined(w)
        ELSE /\ node_id' = [v \in DOMAIN node_id |-> it.node_id]
             /\ begin' = [begin EXCEPT ![w] = it.begin]
             /\ end' = [end EXCEPT ![w] = it.end]
             /\ reads' = [reads EXCEPT ![w] = @ + 1]
             /\ IF it.brk
                THEN /\ cur_depth' = [cur_depth EXCEPT ![w] = @ + 1]
                     /\ pc' = [pc EXCEPT ![w] = AfterLoopTest(cur_depth[w] + 1, query[w].length)]
                ELSE UNCHANGED <<cur_depth, pc>>
             /\ UNCHANGED <<keys, trie, query, result, searches, sl>>

\* one iteration of the binary search; on a match the search returns true,
\* cur_depth is incremented and the loop condition tested
SearchIter(w) ==
  /\ pc[w] = "search"
  /\ begin[w] < end[w]
  /\ LET it == BinarySearchIter(trie.d_levels_ptr_[cur_depth[w] + 1].d_labels_ptr,
                                KeyAt(query[w].key, cur_depth[w] - 1), begin[w], end[w])
     IN IF it.ub THEN Undefined(w)
        ELSE /\ node_id' = [node_id EXCEPT ![w] = it.node_id]
             /\ begin' = [begin EXCEPT ![w] = it.begin]
             /\ end' = [end EXCEPT ![w] = it.end]
             /\ reads' = [reads EXCEPT ![w] = @ + 1]
             /\ IF it.brk
                THEN /\ cur_depth' = [cur_depth EXCEPT ![w] = @ + 1]
                     /\ pc' = [pc EXCEPT ![w] = AfterLoopTest(cur_depth[w] + 1, query[w].length)]
                ELSE UNCHANGED <<cur_depth, pc>>
             /\ UNCHANGED <<keys, trie, query, result, searches, sl>>

\* the binary search ran out of candidates: the search returns false and
\* lookup_key returns -1lu
SearchFail(w) ==
  /\ pc[w] = "search"
  /\ ~(begin[w] < end[w])
  /\ pc' = [pc EXCEPT ![w] = "done"]
  /\ result' = [result EXCEPT ![w] = NOT_FOUND]
  /\ UNCHANGED <<keys, trie, query, node_id, cur_depth, begin, end, searches, reads, sl>>

\* the terminal bit of the final node
TerminalCheck(w) ==
  /\ pc[w] = "terminal"
  /\ LET b == TerminalBit(trie, query[w].length, node_id[w])
     IN IF b.ub THEN Undefined(w)
        ELSE /\ IF b.bit
                THEN /\ pc' = [pc EXCEPT ![w] = "rank"]
                     /\ UNCHANGED result
                ELSE /\ pc' = [pc EXCEPT ![w] = "done"]
                     /\ result' = [result EXCEPT ![w] = NOT_FOUND]
             /\ UNCHANGED <<keys, trie, query, node_id, cur_depth, begin, end,
                            searches, reads, sl>>

\* return offset + rank
ReturnRank(w) ==
  /\ pc[w] = "rank"
  /\ pc' = [pc EXCEPT ![w] = "done"]
  /\ result' = [result EXCEPT ![w] = KeyIndex(trie, query[w].length, node_id[w])]
  /\ UNCHANGED <<keys, trie, query, node_id, cur_depth, begin, end, searches, reads, sl>>

\* a step of a running lookup
Run(w) == Resolve(w) \/ SearchIter(w) \/ SearchFail(w) \/ TerminalCheck(w) \/ ReturnRank(w)

NextSteps ==
  \E w \in DOMAIN pc :
    \/ \E q \in Queries : Start(w, q)
    \/ Resolve(w)
    \/ SearchIter(w)
    \/ SearchFail(w)
    \/ TerminalCheck(w)
    \/ ReturnRank(w)

\* one worker; a started lookup keeps being scheduled
SpecSteps == Init /\ [][NextSteps]_vars /\ WF_vars(Run(1))

\* the workers of a batch, interleaved in any order
SpecConc == InitConc /\ [][NextSteps]_vars

(***************************************************************************)
(* Properties.                                                             *)
(***************************************************************************)
Done(w) == pc[w] = "done"

\* the ranks of a build set K: 0 .. keyCount - 1
RankRange(K) == {ToU64(n) : n \in 0..(Cardinality(K) - 1)}

\* the largest unsigned 64 bit value, 2^64 - 1
MaxU64 == [i \in LimbIdx |-> LimbBase - 1]

\* the rank lookup_key returns for the key k
RankOf(k) == lookup_key(trie, k, ToU64(Len(k))).ret

\* a precedes b in level order: shorter first, then lexicographically
LevelOrderLess(a, b) == Len(a) < Len(b) \/ (Len(a) = Len(b) /\ LexLess(a, b))

C2_RankBijection ==
  \A w \in DOMAIN pc :
    Done(w) /\ Present(keys, query[w]) =>
      /\ \A k \in keys \ {query[w].key} : RankOf(k) # result[w]
      /\ result[w] = RankOf(query[w].key)
      /\ {RankOf(k) : k \in keys} = RankRange(keys)

\* the last of the ranks of a full build set was returned
C2_Witness ==
  /\ Done(1) /\ Present(keys, query[1])
  /\ Cardinality(keys) = MaxKeys
  /\ result[1] = ToU64(MaxKeys - 1)

\* C3: a lookup with length = 0 makes no child search, ends at node 0, and
\* returns a rank iff the empty key is in the build set, NOT_FOUND otherwise.
C3_EmptyKey ==
  \A w \in DOMAIN pc :
    Done(w) /\ query[w].length = ToU64(0) =>
      /\ searches[w] = 0 /\ reads[w] = 0 /\ node_id[w] = 0
      /\ (<< >> \in keys => result[w] \in RankRange(keys))
      /\ (<< >> \notin keys => result[w] = NOT_FOUND)

\* the empty key was looked up in a trie that has keys but not the empty one
C3_Witness ==
  /\ Done(1) /\ query[1].length = ToU64(0)
  /\ keys # {} /\ << >> \notin keys
  /\ result[1] = NOT_FOUND

C10_LevelOrder ==
  \A w \in DOMAIN pc :
    Done(w) /\ Present(keys, query[w]) =>
      /\ \A k \in keys \ {query[w].key} :
           U64Less(result[w], RankOf(k)) <=> LevelOrderLess(query[w].key, k)
      /\ (query[w].key = << >> => result[w] = ToU64(0))

\* a short key was looked up next to a longer, lexicographically smaller one
C10_Witness ==
  /\ Done(1) /\ Present(keys, query[1])
  /\ Len(query[1].key) = 1
  /\ \E k \in keys : Len(k) = 2 /\ k[1] < query[1].key[1]
                     /\ U64Less(result[1], RankOf(k))

\* the LOUDS sequence and the labels of level d, and the nodes of the depth above
LoudsOf(d) == trie.d_louds_refs_ptr_[d + 1]

LabelsOf(d) == trie.d_levels_ptr_[d + 1].d_labels_ptr

NumParents(d) == Len(trie.d_outs_refs_ptr_[d])

\* the slots of depth d whose parent is node i of depth d - 1
ChildSlots(K, d, i) ==
  {NodeIndex(K, p) : p \in {x \in NodesAt(K, d) : NodeIndex(K, Front(x)) = i}}

\* C7: the child range [begin, end) computed for parent i at depth d starts at
\* 0 for i = 0, ends where the range of parent i + 1 begins, and ends at
\* labels.length for the last parent: the ranges partition [0, labels.length).
C7_Partition ==
  sl # NoSearch =>
    LET d == sl.level_id
        i == sl.parent
    IN /\ sl.begin <= sl.end
       /\ (i = 0 => sl.begin = 0)
       /\ (i < NumParents(d) - 1 =>
             sl.end = get_last_child_position(LoudsOf(d), i + 1).node_id)
       /\ (i = NumParents(d) - 1 => sl.end = Len(LabelsOf(d)))

\* the range of a second parent that has children was computed
C7_Witness ==
  /\ sl # NoSearch /\ sl.parent = 1
  /\ 0 < sl.begin /\ sl.begin < sl.end
  /\ sl.end = Len(LabelsOf(sl.level_id))

\* C8: for parent i, begin is 0 when i = 0 and select(i-1) + 1 - i otherwise,
\* end is begin + (find_next_set(blockStart) - blockStart), [begin, end) is
\* exactly the set of slots whose parent is node i, and for a node without
\* children begin = end and the search fails without reading a label.
C8_ChildRange ==
  sl # NoSearch =>
    LET d          == sl.level_id
        i          == sl.parent
        blockStart == IF i = 0 THEN 0 ELSE select(LoudsOf(d), i - 1) + 1
    IN /\ sl.begin = blockStart - i
       /\ sl.end = sl.begin + (find_next_set(LoudsOf(d), blockStart) - blockStart)
       /\ sl.begin..(sl.end - 1) = ChildSlots(keys, d, i)
       /\ (ChildSlots(keys, d, i) = {} => sl.begin = sl.end /\ ~sl.found /\ sl.reads = 0)
       /\ (sl.found <=> \E j \in ChildSlots(keys, d, i) :
                          LabelsOf(d)[j + 1] = sl.target /\ sl.node_id = j)

\* a childless node was searched whose later sibling has children
C8_Witness ==
  /\ sl # NoSearch /\ sl.parent = 0
  /\ NumParents(sl.level_id) > 1
  /\ Len(LabelsOf(sl.level_id)) > 0
  /\ sl.begin = sl.end /\ ~sl.found /\ sl.reads = 0

SearchShrinks ==
  \A w \in DOMAIN pc :
    pc[w] = "search" /\ pc'[w] = "search" /\ reads'[w] # reads[w] =>
      /\ begin[w] <= begin'[w] /\ end'[w] <= end[w]
      /\ end'[w] - begin'[w] < end[w] - begin[w]

C4_Independent ==
  /\ [][shared' = shared]_vars
  /\ [](\A w \in DOMAIN pc :
          Done(w) => result[w] = lookup_key(trie, query[w].key, query[w].length).ret)
  /\ [](\A w, v \in DOMAIN pc :
          Done(w) /\ Done(v) /\ query[w] = query[v] => result[w] = result[v])

\* two workers finished lookups of two different present keys
C4_Witness ==
  /\ Done(1) /\ Done(2)
  /\ Present(keys, query[1]) /\ Present(keys, query[2])
  /\ U64Less(result[1], result[2])
  /\ node_id[1] # node_id[2]

====
